---- MODULE Spec2Model ----
(***************************************************************************)
(* Model of the cognate protocol-translation proxy: the /v1/messages      *)
(* handler of proxy-server.ts (the streaming transcoder) driven by the    *)
(* backend clients of handlers/openrouter-handler.ts and                  *)
(* handlers/gemini-native-handler.ts.                                     *)
(*                                                                         *)
(* Text is modelled by TLA+ strings; JSON text (tool-call arguments) by   *)
(* sequences of one-character strings, so that slicing and concatenation  *)
(* are character exact.                                                    *)
(***************************************************************************)
EXTENDS Integers, Sequences, FiniteSets, Bags, TLC

(***************************************************************************)
(* Bounds of the model.                                                    *)
(***************************************************************************)
\* backend chunks (data lines / SDK chunks) processed in one request
MaxLines == 3
\* tool calls the backend names in one response
MaxTools == 2

(***************************************************************************)
(* JSON values and JSON.parse / JSON.stringify over the characters         *)
(*   {  }  :  ,  "  letters  digits                                        *)
(* A value is [t, s, kv]: t is "num", "str" or "obj"; s the characters of  *)
(* a scalar; kv the members of an object in insertion order, each          *)
(* [k |-> characters of the key, v |-> value].                             *)
(***************************************************************************)
Digits == {"1", "2"}

Quote == "\""

Null == [t |-> "null", s |-> <<>>, kv |-> <<>>]

Num(cs) == [t |-> "num", s |-> cs, kv |-> <<>>]

Str(cs) == [t |-> "str", s |-> cs, kv |-> <<>>]

Obj(members) == [t |-> "obj", s |-> <<>>, kv |-> members]

EmptyObject == Obj(<<>>)

ParseFail == [ok |-> FALSE, val |-> Null, next |-> 0]

MinOf(S) == CHOOSE m \in S : \A n \in S : m <= n

\* position of the closing quote of a string whose content starts at i, 0 if none
ScanString(s, i) ==
  LET J == {j \in i..Len(s) : s[j] = Quote}
  IN  IF J = {} THEN 0 ELSE MinOf(J)

\* position of the last digit of the digit run starting at i
ScanDigits(s, i) ==
  LET K == {k \in i..Len(s) : s[k] \notin Digits}
  IN  IF K = {} THEN Len(s) ELSE MinOf(K) - 1

\* object member assignment: a repeated key keeps its place and takes the new value
PutMember(members, key, val) ==
  IF \E i \in 1..Len(members) : members[i].k = key
  THEN [i \in 1..Len(members) |->
          IF members[i].k = key THEN [k |-> key, v |-> val] ELSE members[i]]
  ELSE Append(members, [k |-> key, v |-> val])

RECURSIVE ParseValue(_, _)
RECURSIVE ParseMembers(_, _, _)

ParseValue(s, i) ==
  IF i > Len(s) THEN ParseFail
  ELSE IF s[i] = Quote THEN
    LET j == ScanString(s, i + 1)
    IN  IF j = 0 THEN ParseFail
        ELSE [ok |-> TRUE, val |-> Str(SubSeq(s, i + 1, j - 1)), next |-> j + 1]
  ELSE IF s[i] \in Digits THEN
    LET j == ScanDigits(s, i)
    IN  [ok |-> TRUE, val |-> Num(SubSeq(s, i, j)), next |-> j + 1]
  ELSE IF s[i] = "{" THEN
    IF i + 1 <= Len(s) /\ s[i + 1] = "}"
    THEN [ok |-> TRUE, val |-> EmptyObject, next |-> i + 2]
    ELSE ParseMembers(s, i + 1, <<>>)
  ELSE ParseFail

ParseMembers(s, i, acc) ==
  IF i > Len(s) \/ s[i] # Quote THEN ParseFail
  ELSE
    LET j == ScanString(s, i + 1)
    IN  IF j = 0 \/ j + 1 > Len(s) \/ s[j + 1] # ":" THEN ParseFail
        ELSE
          LET r == ParseValue(s, j + 2)
          IN  IF ~r.ok THEN ParseFail
              ELSE
                LET acc2 == PutMember(acc, SubSeq(s, i + 1, j - 1), r.val)
                    n == r.next
                IN  IF n > Len(s) THEN ParseFail
                    ELSE IF s[n] = "," THEN ParseMembers(s, n + 1, acc2)
                    ELSE IF s[n] = "}"
                      THEN [ok |-> TRUE, val |-> Obj(acc2), next |-> n + 1]
                    ELSE ParseFail

\* JSON.parse: ok is FALSE where JSON.parse throws SyntaxError
JSONparse(s) ==
  LET r == ParseValue(s, 1)
  IN  IF r.ok /\ r.next = Len(s) + 1
      THEN [ok |-> TRUE, val |-> r.val]
      ELSE [ok |-> FALSE, val |-> Null]

RECURSIVE JSONstringify(_)
RECURSIVE StringifyMembers(_, _)

StringifyMembers(members, i) ==
  IF i > Len(members) THEN <<>>
  ELSE (IF i > 1 THEN <<",">> ELSE <<>>)
       \o <<Quote>> \o members[i].k \o <<Quote, ":">>
       \o JSONstringify(members[i].v)
       \o StringifyMembers(members, i + 1)

JSONstringify(v) ==
  IF v.t = "num" THEN v.s
  ELSE IF v.t = "str" THEN <<Quote>> \o v.s \o <<Quote>>
  ELSE <<"{">> \o StringifyMembers(v.kv, 1) \o <<"}">>

\* deep equality of two JSON values: objects compare as key -> value maps
RECURSIVE DeepEqual(_, _)
DeepEqual(v, w) ==
  /\ v.t = w.t
  /\ v.s = w.s
  /\ Len(v.kv) = Len(w.kv)
  /\ \A i \in 1..Len(v.kv) :
       \E j \in 1..Len(w.kv) :
         /\ v.kv[i].k = w.kv[j].k
         /\ DeepEqual(v.kv[i].v, w.kv[j].v)

(***************************************************************************)
(* Inputs of the model: what a backend can put on the wire.                *)
(***************************************************************************)
\* delta.content / chunk.text() values; "" is an absent or empty text
Contents == {"", "He", "llo"}

\* the complete JSON argument strings a backend streams for a tool call
ArgStrings ==
  { <<"{", "}">>,
    <<"{", Quote, "a", Quote, ":", "1", "}">> }

\* the function name the backend gives to the call in slot i
ToolName(i) == IF i = 1 THEN "A" ELSE IF i = 2 THEN "B" ELSE "C"

\* the id the backend gives to the call in slot i (when it sends one)
CallId(i) == IF i = 1 THEN "call_1" ELSE IF i = 2 THEN "call_2" ELSE "call_3"

NoTool == [id |-> "", name |-> "", args |-> Null]

(***************************************************************************)
(* Canonical frames written with controller.enqueue, and controller.close. *)
(***************************************************************************)
Frame(type, index, block, text, tool, stop, tokens) ==
  [type |-> type, index |-> index, block |-> block, text |-> text,
   tool |-> tool, stop_reason |-> stop, output_tokens |-> tokens]

MessageStartFrame == Frame("message_start", -1, "", "", NoTool, "", 0)

TextBlockStartFrame(index) ==
  Frame("content_block_start", index, "text", "", NoTool, "", 0)

TextDeltaFrame(index, chunk) ==
  Frame("content_block_delta", index, "text_delta", chunk, NoTool, "", 0)

BlockStopFrame(index) ==
  Frame("content_block_stop", index, "", "", NoTool, "", 0)

ToolUseStartFrame(index, tc) ==
  Frame("content_block_start", index, "tool_use", "", tc, "", 0)

MessageDeltaFrame(tokens) ==
  Frame("message_delta", -1, "", "", NoTool, "end_turn", tokens)

MessageStopFrame == Frame("message_stop", -1, "", "", NoTool, "", 0)

DoneFrame == Frame("[DONE]", -1, "", "", NoTool, "", 0)

ErrorFrame == Frame("server_error", -1, "", "", NoTool, "", 0)

CloseCall == Frame("close", -1, "", "", NoTool, "", 0)

\* let textBlockIndex = 0
textBlockIndex == 0

\* Math.ceil(n / 4)
CeilDiv4(n) == (n + 3) \div 4

\* variant: Math.floor in place of Math.ceil, without the test for no text
OutputTokens_Floor(streamed) == Len(streamed) \div 4

\* usage.output_tokens of message_delta
OutputTokens(streamed) ==
  IF Len(streamed) > 0 THEN CeilDiv4(Len(streamed)) ELSE 1

\* variant: isFirstTextChunk is not consulted, every chunk opens the message
OnChunkFrames_AlwaysStart(first, chunk) ==
  <<MessageStartFrame, TextBlockStartFrame(textBlockIndex),
    TextDeltaFrame(textBlockIndex, chunk)>>

\* the onChunk callback: what one text chunk enqueues
OnChunkFrames(first, chunk) ==
  (IF first
     THEN <<MessageStartFrame, TextBlockStartFrame(textBlockIndex)>>
     ELSE <<>>)
  \o <<TextDeltaFrame(textBlockIndex, chunk)>>

\* variant: currentToolUseIndex++ in place of ++currentToolUseIndex
ToolUseBlockIndex_PostIncrement(cur, k) == cur + k - 1

\* const toolUseBlockIndex = ++currentToolUseIndex, for the k-th call of the loop
ToolUseBlockIndex(cur, k) == cur + k

\* variant: all content_block_start frames first, the stops after them
ToolUseFrames_StartsThenStops(tcs, cur) ==
  [n \in 1..(2 * Len(tcs)) |->
     IF n <= Len(tcs)
       THEN ToolUseStartFrame(cur + n, tcs[n])
       ELSE BlockStopFrame(cur + n - Len(tcs))]

\* the loop over result.toolCalls: a start and a stop frame per call
ToolUseFrames(tcs, cur) ==
  [n \in 1..(2 * Len(tcs)) |->
     IF n % 2 = 1
       THEN ToolUseStartFrame(ToolUseBlockIndex(cur, (n + 1) \div 2), tcs[(n + 1) \div 2])
       ELSE BlockStopFrame(ToolUseBlockIndex(cur, n \div 2))]

\* variant: the terminator frame is not written
CompletionOut_NoTerminator(first, tcs, cur, streamed) ==
  (IF ~first THEN <<BlockStopFrame(textBlockIndex)>> ELSE <<>>)
  \o [n \in 1..(2 * Len(tcs)) |->
       IF n % 2 = 1
         THEN ToolUseStartFrame(cur + (n + 1) \div 2, tcs[(n + 1) \div 2])
         ELSE BlockStopFrame(cur + n \div 2)]
  \o <<MessageDeltaFrame(OutputTokens(streamed)), MessageStopFrame, CloseCall>>

\* variant: the text block is stopped after the tool-use blocks
CompletionOut_TextStopAfterTools(first, tcs, cur, streamed) ==
  ToolUseFrames(tcs, cur)
  \o (IF ~first THEN <<BlockStopFrame(textBlockIndex)>> ELSE <<>>)
  \o <<MessageDeltaFrame(OutputTokens(streamed)), MessageStopFrame, DoneFrame>>
  \o <<CloseCall>>

\* variant: controller.close() is called before the terminator is written
CompletionOut_CloseBeforeTerminator(first, tcs, cur, streamed) ==
  (IF ~first THEN <<BlockStopFrame(textBlockIndex)>> ELSE <<>>)
  \o ToolUseFrames(tcs, cur)
  \o <<MessageDeltaFrame(OutputTokens(streamed)), MessageStopFrame>>
  \o <<CloseCall, DoneFrame>>

\* what is written after handler.generate has returned its result
CompletionOut(first, tcs, cur, streamed) ==
  (IF Len(tcs) > 0
     THEN (IF ~first THEN <<BlockStopFrame(textBlockIndex)>> ELSE <<>>)
          \o ToolUseFrames(tcs, cur)
     ELSE (IF ~first THEN <<BlockStopFrame(textBlockIndex)>> ELSE <<>>))
  \o <<MessageDeltaFrame(OutputTokens(streamed)), MessageStopFrame, DoneFrame>>
  \o <<CloseCall>>

\* variant: the catch block also writes message_stop
StreamErrorOut_WithStop == <<ErrorFrame, MessageStopFrame, CloseCall>>

\* variant: the catch block does not close the stream
StreamErrorOut_NoClose == <<ErrorFrame>>

\* the catch block of start(): what is written when handler.generate throws
StreamErrorOut == <<ErrorFrame, CloseCall>>

(***************************************************************************)
(* The aggregator client's tool-call assembly (handleStreamingResponse).   *)
(***************************************************************************)
\* generateUniqueId(): the n-th id generated in this request
GenerateUniqueId(n) == "uid_" \o ToString(n)

\* tc.id || `tool_${Date.now()}_${generateUniqueId()}`
ToolCallId(tc, n) == IF tc.id # "" THEN tc.id ELSE "tool_" \o GenerateUniqueId(n)

\* tc.function.arguments || "{}"
ArgumentsOrEmpty(arguments) == IF arguments = <<>> THEN <<"{", "}">> ELSE arguments

\* existingArgs.slice(0, -1) + tc.function.arguments + "}"
SpliceArgs(existing, arguments) ==
  SubSeq(existing, 1, Len(existing) - 1) \o arguments \o <<"}">>

\* one iteration of `for (const tc of delta.tool_calls)`; st.threw records that
\* an exception left the loop (it is caught by the per-line catch); st.spliced
\* records which slot's fragment was merged into which entry of toolCalls
ApplyFragment(st, tc) ==
  IF st.threw THEN st
  ELSE IF tc.name # "" THEN
    LET p == JSONparse(ArgumentsOrEmpty(tc.arguments))
        g == IF tc.id # "" THEN st.gen ELSE st.gen + 1
    IN  IF ~p.ok THEN [st EXCEPT !.threw = TRUE, !.gen = g]
        ELSE [st EXCEPT
                !.toolCalls = Append(st.toolCalls,
                   [id |-> ToolCallId(tc, g), name |-> tc.name, args |-> p.val]),
                !.cur = Len(st.toolCalls) + 1,
                !.gen = g]
  ELSE IF st.cur # 0 /\ tc.arguments # <<>> THEN
    LET p == JSONparse(SpliceArgs(JSONstringify(st.toolCalls[st.cur].args),
                                  tc.arguments))
    IN  IF ~p.ok THEN [st EXCEPT !.threw = TRUE]
        ELSE [st EXCEPT !.toolCalls[st.cur].args = p.val,
                        !.spliced = st.spliced \cup
                                      {[call |-> st.cur, slot |-> tc.slot]}]
  ELSE st

RECURSIVE ApplyFragments(_, _)
ApplyFragments(st, frags) ==
  IF frags = <<>> THEN st
  ELSE ApplyFragments(ApplyFragment(st, Head(frags)), Tail(frags))

\* variant: onChunk is called without the test `if (txt)`
OpenRouterTextChunks_NoTruthTest(content) == <<content>>

\* the onChunk calls the aggregator client makes for one parsed line
OpenRouterTextChunks(content) == IF content # "" THEN <<content>> ELSE <<>>

\* the onChunk calls the native-chat client makes for one SDK chunk
GeminiTextChunks(chunkText) == <<chunkText>>

(***************************************************************************)
(* The backend router: getHandlerForRequest of createProxyServer.  Model   *)
(* ids are strings; an option that is undefined or "" is falsy and is      *)
(* written "".                                                             *)
(***************************************************************************)
UpperCase == "ABCDEFGHIJKLMNOPQRSTUVWXYZ"

LowerCase == "abcdefghijklmnopqrstuvwxyz"

\* String.prototype.includes
Includes(s, sub) ==
  \E i \in 1..(Len(s) - Len(sub) + 1) : SubSeq(s, i, i + Len(sub) - 1) = sub

\* the lower-case letter of every upper-case letter
LowerOf ==
  LET letter == [i \in 1..Len(UpperCase) |-> SubSeq(UpperCase, i, i)]
  IN  [c \in {letter[i] : i \in 1..Len(UpperCase)} |->
         LET i == CHOOSE j \in 1..Len(UpperCase) : letter[j] = c
         IN  SubSeq(LowerCase, i, i)]

LowerChar(c) == IF c \in DOMAIN LowerOf THEN LowerOf[c] ELSE c

\* String.prototype.toLowerCase
RECURSIVE ToLowerCase(_)
ToLowerCase(s) ==
  IF s = "" THEN ""
  ELSE LowerChar(SubSeq(s, 1, 1)) \o ToLowerCase(SubSeq(s, 2, Len(s)))

\* variant: the tier substrings are looked up in the requested id as sent
ResolveTarget_CaseSensitive(cfg, requestedModel) ==
  LET req == requestedModel
  IN  IF Includes(req, "opus") /\ cfg.modelMap.opus # "" THEN cfg.modelMap.opus
      ELSE IF Includes(req, "sonnet") /\ cfg.modelMap.sonnet # ""
        THEN cfg.modelMap.sonnet
      ELSE IF Includes(req, "haiku") /\ cfg.modelMap.haiku # ""
        THEN cfg.modelMap.haiku
      ELSE IF cfg.model # "" THEN cfg.model ELSE requestedModel

\* variant: the tiers are tried in the order haiku, sonnet, opus
ResolveTarget_HaikuFirst(cfg, requestedModel) ==
  LET req == ToLowerCase(requestedModel)
  IN  IF Includes(req, "haiku") /\ cfg.modelMap.haiku # "" THEN cfg.modelMap.haiku
      ELSE IF Includes(req, "sonnet") /\ cfg.modelMap.sonnet # ""
        THEN cfg.modelMap.sonnet
      ELSE IF Includes(req, "opus") /\ cfg.modelMap.opus # ""
        THEN cfg.modelMap.opus
      ELSE IF cfg.model # "" THEN cfg.model ELSE requestedModel

\* step 2 of getHandlerForRequest: let target = model || requestedModel,
\* then the if / else if chain over modelMap (an undefined modelMap is a map
\* with no tier set)
ResolveTarget(cfg, requestedModel) ==
  LET req == ToLowerCase(requestedModel)
  IN  IF Includes(req, "opus") /\ cfg.modelMap.opus # "" THEN cfg.modelMap.opus
      ELSE IF Includes(req, "sonnet") /\ cfg.modelMap.sonnet # ""
        THEN cfg.modelMap.sonnet
      ELSE IF Includes(req, "haiku") /\ cfg.modelMap.haiku # ""
        THEN cfg.modelMap.haiku
      ELSE IF cfg.model # "" THEN cfg.model ELSE requestedModel

\* variant: only the model name marks a native-chat target
IsGeminiModel_NameOnly(target) == Includes(target, "gemini")

\* const isGeminiModel = target.includes("gemini") || target.includes("google/")
IsGeminiModel(target) == Includes(target, "gemini") \/ Includes(target, "google/")

\* const isNativeAnthropic = !target.includes("/")
IsNativeAnthropic(target) == ~Includes(target, "/")

\* geminiNativeHandler is constructed only if geminiApiKey is truthy
HasGeminiNativeHandler(cfg) == cfg.geminiApiKey # ""

\* variant: the forced native-chat backend is tested before monitor mode
GetHandlerForRequest_ForcedFirst(cfg, requestedModel) ==
  LET target == ResolveTarget(cfg, requestedModel)
  IN  IF cfg.useGeminiNative /\ HasGeminiNativeHandler(cfg)
        THEN [handler |-> "gemini", target |-> target, key |-> ""]
      ELSE IF cfg.monitorMode
        THEN [handler |-> "native", target |-> "", key |-> ""]
      ELSE IF IsGeminiModel(target) /\ HasGeminiNativeHandler(cfg)
        THEN [handler |-> "gemini", target |-> target, key |-> ""]
      ELSE IF IsNativeAnthropic(target)
        THEN [handler |-> "native", target |-> target, key |-> ""]
      ELSE [handler |-> "openrouter", target |-> target, key |-> target]

\* getHandlerForRequest: the handler returned, the target resolved (none in
\* monitor mode, which returns before step 2) and, for the aggregator, the
\* key of the client in the handlers map
GetHandlerForRequest(cfg, requestedModel) ==
  IF cfg.monitorMode
    THEN [handler |-> "native", target |-> "", key |-> ""]
  ELSE
    LET target == ResolveTarget(cfg, requestedModel)
    IN  IF cfg.useGeminiNative /\ HasGeminiNativeHandler(cfg)
          THEN [handler |-> "gemini", target |-> target, key |-> ""]
        ELSE IF IsGeminiModel(target) /\ HasGeminiNativeHandler(cfg)
          THEN [handler |-> "gemini", target |-> target, key |-> ""]
        ELSE IF IsNativeAnthropic(target)
          THEN [handler |-> "native", target |-> target, key |-> ""]
        ELSE [handler |-> "openrouter", target |-> target, key |-> target]

\* the model ids requests ask for
RequestedModels ==
  {"claude-opus-4", "claude-3-5-SONNET", "claude-3-haiku", "sonnet-opus",
   "opus-haiku", "gpt-4", "x/y", "gemini-pro", "google/gemma"}

\* the configurations createProxyServer is called with
Configs ==
  [monitorMode : BOOLEAN,
   model : {"", "d/default", "gemini-flash", "x/big"},
   modelMap : [opus : {"", "x/big"}, sonnet : {"", "google/mid"},
               haiku : {"", "small"}, subagent : {"", "x/sub"}],
   useGeminiNative : BOOLEAN,
   geminiApiKey : {"", "key"}]

\* the aggregator clients created when the server starts: one per mapped
\* model
PreInitializedHandlers(cfg) ==
  {cfg.model, cfg.modelMap.opus, cfg.modelMap.sonnet, cfg.modelMap.haiku,
   cfg.modelMap.subagent} \ {""}

\* variant: a client is constructed and stored at every call
GetOpenRouterHandler_NoCache(hs, cons, targetModel) ==
  [handlers |-> hs \cup {targetModel},
   constructed |-> cons (+) SetToBag({targetModel})]

\* getOpenRouterHandler(targetModel): hs is the set of keys of the handlers
\* map, cons the bag of the targets `new OpenRouterHandler` was called with
GetOpenRouterHandler(hs, cons, targetModel) ==
  IF targetModel \notin hs
    THEN [handlers |-> hs \cup {targetModel},
          constructed |-> cons (+) SetToBag({targetModel})]
    ELSE [handlers |-> hs, constructed |-> cons]

\* the getOpenRouterHandler calls made when the server starts, for the mapped
\* models that are set
RECURSIVE WarmUp(_, _)
WarmUp(st, ids) ==
  IF ids = <<>> THEN st
  ELSE IF Head(ids) = "" THEN WarmUp(st, Tail(ids))
  ELSE WarmUp(GetOpenRouterHandler(st.handlers, st.constructed, Head(ids)),
              Tail(ids))

PreInitialize(cfg) ==
  WarmUp([handlers |-> {}, constructed |-> EmptyBag],
         <<cfg.model, cfg.modelMap.opus, cfg.modelMap.sonnet, cfg.modelMap.haiku,
           cfg.modelMap.subagent>>)

\* nothing has been sent to a backend yet
NoOutgoing == [handler |-> "none", key |-> "", target |-> "", model |-> ""]

\* generate(messages, modelId, ...) of the aggregator client (const target =
\* modelId; model: target) and of the native-chat client
\* (getGenerativeModel({ model: modelId })): the model of the outgoing request
OutgoingModel(modelId) == modelId

\* no request has been routed yet
NoRoute == [requested |-> "", handler |-> "none", target |-> "", key |-> ""]

\* a server started with a native-chat key and nothing else set
DefaultConfig ==
  [monitorMode |-> FALSE, model |-> "",
   modelMap |-> [opus |-> "", sonnet |-> "", haiku |-> "", subagent |-> ""],
   useGeminiNative |-> FALSE, geminiApiKey |-> "key"]

(***************************************************************************)
(* app.post("/v1/messages/count_tokens").  A body is its model field, set  *)
(* or not, and the serialization of its other fields.                      *)
(***************************************************************************)

\* body.model || "claude-3-opus-20240229"
DefaultCountModel == "claude-3-opus-20240229"

\* the bodies sent to the endpoints: rest is the number of characters the
\* other fields take in JSON.stringify(body)
CountBodies ==
  [hasModel : {TRUE},
   model : {"claude-opus-4", "gpt-4", "x/y", "gemini-pro", ""}, rest : 0..3]
  \cup [hasModel : {FALSE}, model : {""}, rest : 0..3]

\* JSON.stringify(body).length: {"model":"<id>" and the other fields}
SerializedLength(b) ==
  IF b.hasModel THEN 12 + Len(b.model) + b.rest ELSE 2 + b.rest

\* const reqModel = body.model || "claude-3-opus-20240229"
ReqModel(b) == IF b.hasModel /\ b.model # "" THEN b.model ELSE DefaultCountModel

\* getHandlerForRequest(body.model) of /v1/messages: the id is lower-cased
\* after the monitor-mode test, which throws when the body has no model
MessagesRoute(cfg, b) ==
  IF ~b.hasModel /\ ~cfg.monitorMode
    THEN [handler |-> "rejected", target |-> "", key |-> ""]
    ELSE GetHandlerForRequest(cfg, b.model)

\* variant: Math.floor in place of Math.ceil
EstimateTokens_Floor(b) == SerializedLength(b) \div 4

\* Math.ceil(JSON.stringify(body).length / 4)
EstimateTokens(b) == CeilDiv4(SerializedLength(b))

NoTokenCount ==
  [kind |-> "none", body |-> [hasModel |-> FALSE, model |-> "", rest |-> 0],
   handler |-> "none", input_tokens |-> 0]

(***************************************************************************)
(* state.ts: the global application configuration.                         *)
(***************************************************************************)
MaxStateCalls == 4

\* let appConfig: ClaudishConfig | null = null
NoAppConfig == [isNull |-> TRUE]

\* the configurations the entry point can pass
ClaudishConfigs == [adapter : {"openrouter", "ollama"}, monitor : BOOLEAN]

\* variant: a later call replaces the stored configuration
SetConfig_LastWins(cur, cfg) == [appConfig |-> cfg, threw |-> FALSE]

\* setConfig(config): throws if a configuration is stored, stores it
\* otherwise
SetConfig(cur, cfg) ==
  IF cur # NoAppConfig THEN [appConfig |-> cur, threw |-> TRUE]
  ELSE [appConfig |-> cfg, threw |-> FALSE]

\* getConfig(): throws if no configuration is stored, returns it otherwise
GetConfig(cur) ==
  IF cur = NoAppConfig THEN [returned |-> NoAppConfig, threw |-> TRUE]
  ELSE [returned |-> cur, threw |-> FALSE]

(***************************************************************************)
(* app.post("/v1/messages"): the message list built from the request body. *)
(* A content is a string, an array of text blocks or another JSON value.   *)
(***************************************************************************)
MaxMessages == 3

StringContent(text) == [kind |-> "string", text |-> text, blocks |-> <<>>]

ArrayContent(blocks) == [kind |-> "array", text |-> "", blocks |-> blocks]

ObjectContent == [kind |-> "object", text |-> "", blocks |-> <<>>]

\* the contents the i-th message of a request can have
MessageContents(i) ==
  {StringContent("c" \o ToString(i)),
   ArrayContent(<<"b" \o ToString(i), "x">>),
   ObjectContent}

Roles == {"system", "user", "assistant", "tool", "developer"}

\* the message lists of i..n messages
RECURSIVE MessageLists(_, _)
MessageLists(i, n) ==
  IF i > n THEN {<<>>}
  ELSE {<<[role |-> r, content |-> c]>> \o rest :
          r \in Roles, c \in MessageContents(i), rest \in MessageLists(i + 1, n)}

\* the request bodies: body.system absent or a string, body.messages a list
\* of up to max messages
Bodies(max) ==
  [system : {"", "SYS"},
   messages : UNION {MessageLists(1, n) : n \in 0..max}]

\* a body without system prompt and without messages
EmptyBody == [system |-> "", messages |-> <<>>]

\* blocks.map(block => block.text).join("\n")
RECURSIVE JoinLines(_)
JoinLines(blocks) ==
  IF blocks = <<>> THEN ""
  ELSE IF Len(blocks) = 1 THEN blocks[1]
  ELSE blocks[1] \o "\n" \o JoinLines(Tail(blocks))

\* the text a system message of body.messages contributes
SystemText(content) ==
  IF content.kind = "string" THEN content.text ELSE JoinLines(content.blocks)

\* variant: a system message of body.messages is pushed where it stands
PushMessage_SystemInPlace(acc, msg) ==
  IF msg.role = "system"
    THEN [acc EXCEPT !.messages = Append(acc.messages,
                                         [role |-> "system", content |-> msg.content])]
  ELSE IF msg.role \in {"user", "assistant"}
    THEN IF msg.content.kind \in {"string", "array"}
           THEN [acc EXCEPT !.messages = Append(acc.messages, msg)]
           ELSE acc
  ELSE IF msg.role = "tool"
    THEN [acc EXCEPT !.messages = Append(acc.messages, msg)]
  ELSE acc

\* one iteration of `for (const msg of body.messages)`; acc holds
\* systemMessageContent ("" for undefined) and messages
PushMessage(acc, msg) ==
  IF msg.role = "system"
    THEN IF acc.system = ""
           THEN [acc EXCEPT !.system = SystemText(msg.content)]
           ELSE acc
  ELSE IF msg.role \in {"user", "assistant"}
    THEN IF msg.content.kind \in {"string", "array"}
           THEN [acc EXCEPT !.messages = Append(acc.messages, msg)]
           ELSE acc
  ELSE IF msg.role = "tool"
    THEN [acc EXCEPT !.messages = Append(acc.messages, msg)]
  ELSE acc

RECURSIVE PushMessages(_, _)
PushMessages(acc, msgs) ==
  IF msgs = <<>> THEN acc
  ELSE PushMessages(PushMessage(acc, Head(msgs)), Tail(msgs))

\* the messages passed to handler.generate: the loop over body.messages, then
\* the unshift of the consolidated system message
BuildMessages(b) ==
  LET acc == PushMessages([system |-> b.system, messages |-> <<>>], b.messages)
  IN  IF acc.system # ""
        THEN <<[role |-> "system", content |-> StringContent(acc.system)]>>
             \o acc.messages
        ELSE acc.messages

(***************************************************************************)
(* One aggregator client (OpenRouterHandler) and the generate calls made   *)
(* on it by concurrent requests.                                           *)
(***************************************************************************)
MaxRequests == 2

Requests == 1..MaxRequests

\* the target the client was constructed for
TargetModel == "x/y"

\* the modelId arguments of generate
ModelIds == {"x/y", "claude-opus-4"}

\* adapter.reset exists: the adapters define the reset hook
AdapterHasReset == TRUE

\* this.adapterManager.getAdapter(): the one adapter of the client, whatever
\* the request
GetAdapter(request) == "adapter"

Adapters == {GetAdapter(r) : r \in Requests}

\* fetchContextWindow(model) up to its await: nothing to do if the cache has
\* the model, a fetch otherwise
NeedsWindowFetch(cache, model) == model \notin cache

\* variant: the cache is tested again when the fetch has resolved
StoreWindow_Recheck(cache, writes, model) ==
  IF model \in cache THEN [cache |-> cache, writes |-> writes]
  ELSE [cache |-> cache \cup {model}, writes |-> writes (+) SetToBag({model})]

\* this.contextWindowCache.set(model, limit) once the fetch has resolved;
\* writes is the bag of the keys set so far
StoreWindow(cache, writes, model) ==
  [cache |-> cache \cup {model}, writes |-> writes (+) SetToBag({model})]

\* variant: the request is prepared before the adapter is reset
PrepareEvents_ResetLate(hasReset) ==
  <<"prepareRequest">> \o (IF hasReset THEN <<"reset">> ELSE <<>>)
  \o <<"beforeRequest">>

\* generate between the answer of doesModelSupportReasoning and the await of
\* beforeRequest: the hooks called, in order
PrepareEvents(hasReset) ==
  (IF hasReset THEN <<"reset">> ELSE <<>>)
  \o <<"prepareRequest", "beforeRequest">>

(***************************************************************************)
(* State of the server and of one request to POST /v1/messages.            *)
(***************************************************************************)
VARIABLES
  callerGone,          \* the caller has cancelled the stream of the response
  taken,               \* how many enqueued frames the caller has read
  contextWindowCache,  \* the keys of contextWindowCache of the client
  cacheWrites,         \* history: the bag of the keys contextWindowCache.set
                       \* was called with
  ctorFetch,           \* the warm-up fetch of the constructor: "pending",
                       \* "stored", "failed"
  genPc,               \* where each generate call stands
  genModel,            \* the modelId of each generate call
  genEvents,           \* history: the hooks and the backend call of each
                       \* generate call, in order
  adapterResetBy,      \* the generate call that reset each adapter last
  constructed,         \* history: the bag of the targets of the aggregator
                       \* clients constructed
  outgoing,            \* the last request sent to a backend
  body,                \* the system and messages fields of the request body
  messages,            \* the messages built from it
  appConfig,           \* appConfig of state.ts
  stateCalls,          \* history: the calls of setConfig and getConfig
  wire,                \* what the backend has still to send of its response
  sent,                \* history: what reader.read() has returned so far
  buffer,              \* the buffer of the read loop
  processed,           \* history: the dataStr of every data line the read
                       \* loop has looked at; "[DONE]" where it took the break
  readerDone,          \* reader.read() has reported done
  tokenCount,          \* the last request to /v1/messages/count_tokens and
                       \* its answer
  config,              \* the arguments of createProxyServer
  handlers,            \* the keys of the map of aggregator clients
  route,               \* the last request routed and what the router returned
  pc,                  \* "idle", "open" (stream returned, generate not yet
                       \* dispatched), "streaming", "done"
  http,                \* what the caller got as HTTP response: "none",
                       \* "stream" (200 text/event-stream), "json500"
  handler,             \* "none", "openrouter", "gemini"
  out,                 \* the controller.enqueue / controller.close calls so far
  isFirstTextChunk,
  currentToolUseIndex,
  streamedContent,
  fullContent,         \* fullContent of the backend client
  toolCalls,           \* toolCalls of the backend client
  currentToolCall,     \* position in toolCalls of currentToolCall, 0 for null
  uniqueIds,           \* ids generated so far
  nLines,              \* backend chunks processed so far
  inDeltas,            \* history: the text deltas the backend has delivered
  slots,               \* history: the tool calls the backend has named, with
                       \* the argument text sent so far for each
  lineLog,             \* history: kind and text of every backend chunk and
                       \* the callbacks called for it, in order
  spliced,             \* history: the argument fragments merged into a tool
                       \* call, as [call, slot] pairs
  outcome              \* "none", "rejected", "success", "error"

vars == <<pc, http, handler, out, isFirstTextChunk, currentToolUseIndex,
          streamedContent, fullContent, toolCalls, currentToolCall, uniqueIds,
          nLines, inDeltas, slots, lineLog, spliced, outcome,
          config, handlers, route, appConfig, stateCalls,
          body, messages, constructed, outgoing, contextWindowCache,
          cacheWrites, ctorFetch, genPc, genModel, genEvents, adapterResetBy,
          callerGone, taken, tokenCount, wire, sent, buffer, processed,
          readerDone>>

routerVars == <<config, handlers, route, constructed, outgoing, tokenCount>>

stateVars == <<appConfig, stateCalls>>

\* the variables no step of a request and no routing step changes
messageVars == <<body, messages>>

clientInstanceVars == <<contextWindowCache, cacheWrites, ctorFetch, genPc,
                        genModel, genEvents, adapterResetBy>>

\* the reading side of the ReadableStream returned to the caller
callerVars == <<callerGone, taken>>

\* the reader of the backend response and the line buffer of the read loop
readerVars == <<wire, sent, buffer, processed, readerDone>>

auxVars == <<stateVars, messageVars, clientInstanceVars, callerVars,
             readerVars>>

requestVars == <<pc, http, handler, out, isFirstTextChunk, currentToolUseIndex,
                 streamedContent, fullContent, toolCalls, currentToolCall,
                 uniqueIds, nLines, inDeltas, slots, lineLog, spliced, outcome,
                 callerGone, taken, readerVars>>

proxyVars == <<out, isFirstTextChunk, currentToolUseIndex, streamedContent>>

clientVars == <<fullContent, toolCalls, currentToolCall, uniqueIds>>

backendVars == <<nLines, inDeltas, slots, lineLog, spliced>>

\* no backend response is being read
ReaderIdle ==
  /\ wire = <<>>
  /\ sent = <<>>
  /\ buffer = <<>>
  /\ processed = <<>>
  /\ readerDone = FALSE

RequestInit ==
  /\ pc = "idle"
  /\ http = "none"
  /\ handler = "none"
  /\ out = <<>>
  /\ isFirstTextChunk = TRUE
  /\ currentToolUseIndex = 0
  /\ streamedContent = ""
  /\ fullContent = ""
  /\ toolCalls = <<>>
  /\ currentToolCall = 0
  /\ uniqueIds = 0
  /\ nLines = 0
  /\ inDeltas = <<>>
  /\ slots = <<>>
  /\ lineLog = <<>>
  /\ spliced = {}
  /\ outcome = "none"
  /\ callerGone = FALSE
  /\ taken = 0
  /\ ReaderIdle

\* state.ts when the process starts
StateInit ==
  /\ appConfig = NoAppConfig
  /\ stateCalls = <<>>

\* a request whose body has no system prompt and no messages
MessagesIdle ==
  /\ body = EmptyBody
  /\ messages = <<>>

\* an aggregator client just constructed: its warm-up fetch is pending and
\* generate has not been called
ClientConstructed ==
  /\ contextWindowCache = {}
  /\ cacheWrites = EmptyBag
  /\ ctorFetch = "pending"
  /\ genPc = [r \in Requests |-> "idle"]
  /\ genModel = [r \in Requests |-> ""]
  /\ genEvents = [r \in Requests |-> <<>>]
  /\ adapterResetBy = [a \in Adapters |-> 0]

AuxInit == StateInit /\ MessagesIdle /\ ClientConstructed

\* a server created with DefaultConfig that has routed no request
RouterIdle ==
  /\ config = DefaultConfig
  /\ handlers = PreInitializedHandlers(config)
  /\ route = NoRoute
  /\ constructed = PreInitialize(config).constructed
  /\ outgoing = NoOutgoing
  /\ tokenCount = NoTokenCount

\* state.ts when a request arrives: the entry point has called setConfig, or
\* it has not
StateAtRequest ==
  /\ appConfig \in {NoAppConfig, [adapter |-> "openrouter", monitor |-> FALSE]}
  /\ stateCalls = <<>>

\* state.ts while a backend response is streamed by the aggregator client:
\* getConfig has returned, so setConfig has been called
StateConfigured ==
  /\ appConfig = [adapter |-> "openrouter", monitor |-> FALSE]
  /\ stateCalls = <<>>

Init ==
  /\ RequestInit
  /\ RouterIdle
  /\ StateAtRequest
  /\ MessagesIdle
  /\ ClientConstructed

\* the handlers getHandlerForRequest can return whose source is modelled
Handlers == {"openrouter", "gemini"}

(***************************************************************************)
(* app.post("/v1/messages"): the outer try block.  Reading the body or     *)
(* selecting the handler may throw; otherwise the stream is created and    *)
(* returned as the response.                                               *)
(***************************************************************************)
PostRejected ==
  /\ pc = "idle"
  /\ pc' = "done"
  /\ http' = "json500"
  /\ outcome' = "rejected"
  /\ UNCHANGED <<handler, proxyVars, clientVars, backendVars>>
  /\ UNCHANGED <<routerVars, auxVars>>

PostAccepted ==
  /\ pc = "idle"
  /\ \E h \in Handlers : handler' = h
  /\ pc' = "open"
  /\ http' = "stream"
  /\ UNCHANGED <<proxyVars, clientVars, backendVars, outcome>>
  /\ UNCHANGED <<routerVars, auxVars>>

(***************************************************************************)
(* start(controller): await handler.generate(...).  The dispatch of the    *)
(* backend call either opens the backend stream or throws (fetch rejects,  *)
(* !response.ok, sendMessageStream rejects); a throw lands in the catch    *)
(* block of start().                                                       *)
(***************************************************************************)
DispatchOk ==
  /\ pc = "open"
  \* generate of the aggregator client starts with getConfig()
  /\ handler = "openrouter" => ~GetConfig(appConfig).threw
  /\ pc' = "streaming"
  /\ UNCHANGED <<http, handler, proxyVars, clientVars, backendVars, outcome>>
  /\ UNCHANGED <<routerVars, auxVars>>

DispatchFails ==
  /\ pc = "open"
  /\ out' = out \o StreamErrorOut
  /\ pc' = "done"
  /\ outcome' = "error"
  /\ UNCHANGED <<http, handler, isFirstTextChunk, currentToolUseIndex,
                 streamedContent, clientVars, backendVars>>
  /\ UNCHANGED <<routerVars, auxVars>>

\* the text callback applied to the chunks of one backend chunk, in order
RECURSIVE OnChunks(_, _)
OnChunks(px, chunks) ==
  IF chunks = <<>> THEN px
  ELSE OnChunks([out |-> px.out \o OnChunkFrames(px.first, Head(chunks)),
                 first |-> FALSE,
                 streamed |-> px.streamed \o Head(chunks)],
                Tail(chunks))

\* fullContent += txt for every chunk handed to onChunk
RECURSIVE Concat(_)
Concat(chunks) == IF chunks = <<>> THEN "" ELSE Head(chunks) \o Concat(Tail(chunks))

\* onChunk(txt) once per text chunk
OnChunkCalls(chunks) == [i \in 1..Len(chunks) |-> "onChunk"]

\* what a line with choices[0].delta calls: await afterStreamChunk(...) with
\* the streamMetadata of this call of handleStreamingResponse, then onChunk
DeltaCalls(chunks) == <<"afterStreamChunk">> \o OnChunkCalls(chunks)

\* The tool-call fragments a backend can put in the next line: the first
\* fragment of a new call carries its name and a prefix of its arguments;
\* a later fragment carries the next slice of the arguments of a named call,
\* or repeats the name and id of the call.
NewCallFragments ==
  IF Len(slots) >= MaxTools THEN {}
  ELSE
    LET i == Len(slots) + 1
    IN  UNION { { [frag |-> [slot |-> i, id |-> id, name |-> ToolName(i),
                             arguments |-> SubSeq(full, 1, k)],
                   slots |-> Append(slots, [name |-> ToolName(i), id |-> id,
                                            full |-> full, pos |-> k,
                                            named |-> 1])] :
                    id \in {"", CallId(i)}, k \in 0..Len(full) } :
                full \in ArgStrings }

NextSliceFragments ==
  UNION { { [frag |-> [slot |-> i, id |-> "", name |-> "",
                       arguments |-> SubSeq(slots[i].full, slots[i].pos + 1,
                                            slots[i].pos + k)],
             slots |-> [slots EXCEPT ![i].pos = slots[i].pos + k]] :
              k \in 1..(Len(slots[i].full) - slots[i].pos) } :
          i \in 1..Len(slots) }

\* a backend that sends the name and id of a call again (once at most)
RepeatedNameFragments ==
  { [frag |-> [slot |-> i, id |-> slots[i].id, name |-> slots[i].name,
               arguments |-> <<>>],
     slots |-> [slots EXCEPT ![i].named = 2]] :
      i \in {j \in 1..Len(slots) : slots[j].named = 1} }

\* delta.tool_calls of the next line: absent, or one fragment
LineToolCalls ==
  {[frags |-> <<>>, slots |-> slots]}
  \cup {[frags |-> <<f.frag>>, slots |-> f.slots] :
          f \in NewCallFragments \cup NextSliceFragments
                \cup RepeatedNameFragments}

(***************************************************************************)
(* handleStreamingResponse: one `data: {json}` line whose JSON parses and  *)
(* has choices[0].delta.  The text, if any, goes to onChunk; the tool-call *)
(* fragments are applied in order; an exception thrown while doing so is   *)
(* caught by the catch of this line and the loop goes on to the next line. *)
(***************************************************************************)
DataLine ==
  /\ pc = "streaming"
  /\ handler = "openrouter"
  /\ nLines < MaxLines
  /\ \E content \in Contents, tcs \in LineToolCalls :
       \* the backend puts text or tool-call fragments in a line, as
       \* OpenAI-compatible streams do
       /\ content = "" \/ tcs.frags = <<>>
       /\ LET chunks == OpenRouterTextChunks(content)
              px == OnChunks([out |-> out, first |-> isFirstTextChunk,
                              streamed |-> streamedContent], chunks)
              st == ApplyFragments([toolCalls |-> toolCalls,
                                    cur |-> currentToolCall,
                                    gen |-> uniqueIds, threw |-> FALSE,
                                    spliced |-> spliced],
                                   tcs.frags)
          IN  /\ out' = px.out
              /\ isFirstTextChunk' = px.first
              /\ streamedContent' = px.streamed
              /\ fullContent' = fullContent \o Concat(chunks)
              /\ toolCalls' = st.toolCalls
              /\ currentToolCall' = st.cur
              /\ uniqueIds' = st.gen
              /\ inDeltas' = inDeltas \o chunks
              /\ slots' = tcs.slots
              /\ spliced' = st.spliced
              /\ lineLog' = Append(lineLog, [kind |-> "delta", content |-> content,
                                              calls |-> DeltaCalls(chunks)])
  /\ nLines' = nLines + 1
  /\ UNCHANGED <<pc, http, handler, currentToolUseIndex, outcome>>
  /\ UNCHANGED <<routerVars, auxVars>>

\* variant: the try/catch encloses the loop over the lines, a bad line
\* leaves handleStreamingResponse
LineCatch_AroundLoop == "abort"

\* try { JSON.parse(dataStr) ... } catch (e) { log(...) } inside the loop over
\* the lines: an exception of one line is logged and the loop goes on
LineCatch == "continue"

\* a data line that is not JSON (JSON.parse throws, caught, logged) or that
\* has no choices[0].delta: nothing is done with it
SkippedLine ==
  /\ pc = "streaming"
  /\ handler = "openrouter"
  /\ nLines < MaxLines
  /\ nLines' = nLines + 1
  /\ \E kind \in {"malformed", "nodelta"} :
       /\ lineLog' = Append(lineLog, [kind |-> kind, content |-> "",
                                       calls |-> <<>>])
       /\ IF kind = "malformed" /\ LineCatch # "continue"
            THEN /\ out' = out \o StreamErrorOut
                 /\ pc' = "done"
                 /\ outcome' = "error"
            ELSE UNCHANGED <<out, pc, outcome>>
  /\ UNCHANGED <<http, handler, isFirstTextChunk, currentToolUseIndex,
                 streamedContent, clientVars, inDeltas, slots, spliced>>
  /\ UNCHANGED <<routerVars, auxVars>>

\* the function calls of one SDK chunk: none, or one complete call
ChunkFunctionCalls ==
  {<<>>}
  \cup (IF Len(slots) >= MaxTools THEN {}
        ELSE {<<[name |-> ToolName(Len(slots) + 1), args |-> JSONparse(full).val,
                 full |-> full]>> : full \in ArgStrings})

(***************************************************************************)
(* GeminiNativeHandler.generate: one chunk of result.stream.  Its text is  *)
(* passed to onChunk whatever it is; every functionCall part becomes a     *)
(* tool call with a generated id.                                          *)
(***************************************************************************)
GeminiChunk ==
  /\ pc = "streaming"
  /\ handler = "gemini"
  /\ nLines < MaxLines
  /\ \E chunkText \in Contents, calls \in ChunkFunctionCalls :
       LET chunks == GeminiTextChunks(chunkText)
           px == OnChunks([out |-> out, first |-> isFirstTextChunk,
                           streamed |-> streamedContent], chunks)
       IN  /\ out' = px.out
           /\ isFirstTextChunk' = px.first
           /\ streamedContent' = px.streamed
           /\ fullContent' = fullContent \o chunkText
           /\ toolCalls' = toolCalls \o
                [k \in 1..Len(calls) |->
                   [id |-> GenerateUniqueId(uniqueIds + k),
                    name |-> calls[k].name, args |-> calls[k].args]]
           /\ uniqueIds' = uniqueIds + Len(calls)
           /\ inDeltas' = inDeltas \o <<chunkText>>
           /\ slots' = slots \o
                [k \in 1..Len(calls) |->
                   [name |-> calls[k].name, id |-> "", full |-> calls[k].full,
                    pos |-> Len(calls[k].full), named |-> 1]]
           /\ lineLog' = Append(lineLog, [kind |-> "chunk", content |-> chunkText,
                                           calls |-> OnChunkCalls(chunks)])
  /\ nLines' = nLines + 1
  /\ UNCHANGED <<pc, http, handler, currentToolUseIndex, currentToolCall,
                 spliced, outcome>>
  /\ UNCHANGED <<routerVars, auxVars>>

(***************************************************************************)
(* The backend stream ends (reader.read() reports done, or result.stream   *)
(* is exhausted): generate returns {fullContent, toolCalls, ...} and       *)
(* start() writes the closing frames and closes the stream.                *)
(***************************************************************************)
StreamEnd ==
  /\ pc = "streaming"
  /\ out' = out \o CompletionOut(isFirstTextChunk, toolCalls,
                                 currentToolUseIndex, streamedContent)
  /\ currentToolUseIndex' = currentToolUseIndex + Len(toolCalls)
  /\ pc' = "done"
  /\ outcome' = "success"
  /\ UNCHANGED <<http, handler, isFirstTextChunk, streamedContent, clientVars,
                 backendVars>>
  /\ UNCHANGED <<routerVars, auxVars>>

(***************************************************************************)
(* The backend stream fails (reader.read() rejects, the SDK iterator       *)
(* throws): the client rethrows and the catch block of start() writes the  *)
(* error frame and closes the stream.                                      *)
(***************************************************************************)
StreamError ==
  /\ pc = "streaming"
  /\ out' = out \o StreamErrorOut
  /\ pc' = "done"
  /\ outcome' = "error"
  /\ UNCHANGED <<http, handler, isFirstTextChunk, currentToolUseIndex,
                 streamedContent, clientVars, backendVars>>
  /\ UNCHANGED <<routerVars, auxVars>>

Next ==
  \/ PostRejected
  \/ PostAccepted
  \/ DispatchOk
  \/ DispatchFails
  \/ DataLine
  \/ SkippedLine
  \/ GeminiChunk
  \/ StreamEnd
  \/ StreamError

Spec == Init /\ [][Next]_vars

(***************************************************************************)
(* The router over the life of a server: createProxyServer is called with  *)
(* some configuration, then requests are routed.                           *)
(***************************************************************************)
RouterInit ==
  /\ RequestInit
  /\ config \in Configs
  /\ handlers = PreInitialize(config).handlers
  /\ route = NoRoute
  /\ constructed = PreInitialize(config).constructed
  /\ outgoing = NoOutgoing
  /\ tokenCount = NoTokenCount
  /\ AuxInit

\* getHandlerForRequest(requestedModel), with the getOpenRouterHandler call
\* that creates the aggregator client of a target on first use
RouteRequest(requestedModel) ==
  LET r == GetHandlerForRequest(config, requestedModel)
      g == GetOpenRouterHandler(handlers, constructed, r.key)
  IN  /\ route' = [requested |-> requestedModel, handler |-> r.handler,
                   target |-> r.target, key |-> r.key]
      /\ IF r.handler = "openrouter"
           THEN /\ handlers' = g.handlers
                /\ constructed' = g.constructed
           ELSE UNCHANGED <<handlers, constructed>>
      /\ UNCHANGED <<config, outgoing, tokenCount, requestVars, auxVars>>

\* handler.generate(messages, body.model, ...) of the handler the router
\* returned, as far as the request it sends; the pass-through native handler
\* forwards the body as it is
SendToBackend ==
  /\ route.handler \in Handlers
  /\ outgoing' = [handler |-> route.handler, key |-> route.key,
                  target |-> route.target,
                  model |-> OutgoingModel(route.requested)]
  /\ UNCHANGED <<config, handlers, route, constructed, tokenCount,
                 requestVars, auxVars>>

RouterNext ==
  \/ \E requestedModel \in RequestedModels : RouteRequest(requestedModel)
  \/ SendToBackend

RouterSpec == RouterInit /\ [][RouterNext]_vars

(***************************************************************************)
(* A request to /v1/messages/count_tokens: the handler is selected for     *)
(* reqModel (an aggregator client is created on first use); with the       *)
(* pass-through native handler the body is forwarded to the count endpoint *)
(* of the real backend and its answer returned, otherwise the estimate is  *)
(* returned.                                                               *)
(***************************************************************************)
CountTokens(b) ==
  LET r == GetHandlerForRequest(config, ReqModel(b))
      g == GetOpenRouterHandler(handlers, constructed, r.key)
  IN  /\ IF r.handler = "openrouter"
           THEN /\ handlers' = g.handlers
                /\ constructed' = g.constructed
           ELSE UNCHANGED <<handlers, constructed>>
      /\ tokenCount' =
           IF r.handler = "native"
             THEN [kind |-> "forwarded", body |-> b, handler |-> r.handler,
                   input_tokens |-> 0]
             ELSE [kind |-> "estimate", body |-> b, handler |-> r.handler,
                   input_tokens |-> EstimateTokens(b)]
      /\ UNCHANGED <<config, route, outgoing, requestVars, auxVars>>

TokenInit == RouterInit

TokenNext == \E b \in CountBodies : CountTokens(b)

TokenSpec == TokenInit /\ [][TokenNext]_vars

(***************************************************************************)
(* The message list of a request: any body arrives, the handler of         *)
(* /v1/messages builds the messages it passes to generate.                 *)
(***************************************************************************)
MessagesInit ==
  /\ RequestInit
  /\ RouterIdle
  /\ StateInit
  /\ body \in Bodies(MaxMessages)
  /\ messages = <<>>
  /\ ClientConstructed

BuildRequestMessages ==
  /\ messages' = BuildMessages(body)
  /\ UNCHANGED <<body, requestVars, routerVars, stateVars, clientInstanceVars>>

MessagesNext == BuildRequestMessages

MessagesSpec == MessagesInit /\ [][MessagesNext]_vars

(***************************************************************************)
(* One aggregator client serving concurrent requests.  Each action is the  *)
(* code of generate between two awaits; the warm-up fetch of the           *)
(* constructor runs beside them.                                           *)
(***************************************************************************)
ClientInit ==
  /\ RequestInit
  /\ RouterIdle
  /\ MessagesIdle
  /\ appConfig \in {NoAppConfig, [adapter |-> "openrouter", monitor |-> FALSE]}
  /\ stateCalls = <<>>
  /\ ClientConstructed

ClientUnchanged == UNCHANGED <<requestVars, routerVars, stateVars, messageVars>>

\* the warm-up fetch of the constructor resolves or rejects
CtorWindowFetched ==
  /\ ctorFetch = "pending"
  /\ \/ LET w == StoreWindow(contextWindowCache, cacheWrites, TargetModel)
        IN  /\ contextWindowCache' = w.cache
            /\ cacheWrites' = w.writes
            /\ ctorFetch' = "stored"
     \/ /\ ctorFetch' = "failed"
        /\ UNCHANGED <<contextWindowCache, cacheWrites>>
  /\ UNCHANGED <<genPc, genModel, genEvents, adapterResetBy>>
  /\ ClientUnchanged

\* generate is called: getConfig(), then fetchContextWindow(target) up to its
\* await
StartGenerate(r) ==
  /\ genPc[r] = "idle"
  /\ \E modelId \in ModelIds :
       /\ genModel' = [genModel EXCEPT ![r] = modelId]
       /\ genPc' = [genPc EXCEPT ![r] =
                      IF GetConfig(appConfig).threw THEN "failed"
                      ELSE IF NeedsWindowFetch(contextWindowCache, modelId)
                        THEN "fetchWindow"
                      ELSE "reasoning"]
  /\ UNCHANGED <<contextWindowCache, cacheWrites, ctorFetch, genEvents,
                 adapterResetBy>>
  /\ ClientUnchanged

\* the fetch of fetchContextWindow resolves (the limit is stored) or rejects
\* (catch (e) {}); generate goes on to await doesModelSupportReasoning
WindowFetched(r) ==
  /\ genPc[r] = "fetchWindow"
  /\ \/ LET w == StoreWindow(contextWindowCache, cacheWrites, genModel[r])
        IN  /\ contextWindowCache' = w.cache
            /\ cacheWrites' = w.writes
     \/ UNCHANGED <<contextWindowCache, cacheWrites>>
  /\ genPc' = [genPc EXCEPT ![r] = "reasoning"]
  /\ UNCHANGED <<ctorFetch, genModel, genEvents, adapterResetBy>>
  /\ ClientUnchanged

\* doesModelSupportReasoning has answered: the payload is built, the adapter
\* is reset and prepares the request, beforeRequest is called and awaited
PrepareRequest(r) ==
  /\ genPc[r] = "reasoning"
  /\ genEvents' = [genEvents EXCEPT ![r] = @ \o PrepareEvents(AdapterHasReset)]
  /\ adapterResetBy' = IF AdapterHasReset
                         THEN [adapterResetBy EXCEPT ![GetAdapter(r)] = r]
                         ELSE adapterResetBy
  /\ genPc' = [genPc EXCEPT ![r] = "beforeRequest"]
  /\ UNCHANGED <<contextWindowCache, cacheWrites, ctorFetch, genModel>>
  /\ ClientUnchanged

\* beforeRequest has resolved and fetch(apiUrl, ...) is called, or it has
\* rejected and generate throws
BeforeRequestDone(r) ==
  /\ genPc[r] = "beforeRequest"
  /\ \/ /\ genEvents' = [genEvents EXCEPT ![r] = Append(@, "fetch")]
        /\ genPc' = [genPc EXCEPT ![r] = "backend"]
     \/ /\ genPc' = [genPc EXCEPT ![r] = "failed"]
        /\ UNCHANGED genEvents
  /\ UNCHANGED <<contextWindowCache, cacheWrites, ctorFetch, genModel,
                 adapterResetBy>>
  /\ ClientUnchanged

\* the backend answers: response.ok and handleStreamingResponse starts, or
\* generate throws the API error
BackendAnswers(r) ==
  /\ genPc[r] = "backend"
  /\ \E next \in {"streaming", "failed"} : genPc' = [genPc EXCEPT ![r] = next]
  /\ UNCHANGED <<contextWindowCache, cacheWrites, ctorFetch, genModel,
                 genEvents, adapterResetBy>>
  /\ ClientUnchanged

\* handleStreamingResponse returns or throws
StreamingDone(r) ==
  /\ genPc[r] = "streaming"
  /\ \E next \in {"done", "failed"} : genPc' = [genPc EXCEPT ![r] = next]
  /\ UNCHANGED <<contextWindowCache, cacheWrites, ctorFetch, genModel,
                 genEvents, adapterResetBy>>
  /\ ClientUnchanged

ClientNext ==
  \/ CtorWindowFetched
  \/ \E r \in Requests : StartGenerate(r)
  \/ \E r \in Requests : WindowFetched(r)
  \/ \E r \in Requests : PrepareRequest(r)
  \/ \E r \in Requests : BeforeRequestDone(r)
  \/ \E r \in Requests : BackendAnswers(r)
  \/ \E r \in Requests : StreamingDone(r)

ClientSpec == ClientInit /\ [][ClientNext]_vars

(***************************************************************************)
(* state.ts over the life of the process: setConfig and getConfig are      *)
(* called in any order, with any configuration.                            *)
(***************************************************************************)
CallSetConfig ==
  /\ Len(stateCalls) < MaxStateCalls
  /\ \E cfg \in ClaudishConfigs :
       LET r == SetConfig(appConfig, cfg)
       IN  /\ appConfig' = r.appConfig
           /\ stateCalls' = Append(stateCalls,
                                   [op |-> "setConfig", arg |-> cfg,
                                    threw |-> r.threw, returned |-> NoAppConfig])
  /\ UNCHANGED <<requestVars, routerVars, messageVars, clientInstanceVars>>

CallGetConfig ==
  /\ Len(stateCalls) < MaxStateCalls
  /\ LET r == GetConfig(appConfig)
     IN  stateCalls' = Append(stateCalls,
                              [op |-> "getConfig", arg |-> NoAppConfig,
                               threw |-> r.threw, returned |-> r.returned])
  /\ UNCHANGED <<appConfig, requestVars, routerVars, messageVars,
                 clientInstanceVars>>

StateNext == CallSetConfig \/ CallGetConfig

\* the process starts; no server is serving a request
ProcessInit ==
  /\ RequestInit
  /\ RouterIdle
  /\ StateInit
  /\ MessagesIdle
  /\ ClientConstructed

StateSpec == ProcessInit /\ [][StateNext]_vars

(***************************************************************************)
(* The response stream seen from both ends.  start() of the ReadableStream *)
(* enqueues frames while the caller reads them or cancels.  The stream is  *)
(* built with start() alone: it has no pull(), no cancel() and no queuing  *)
(* strategy, and fetch() is given no abort signal.                         *)
(***************************************************************************)

\* new ReadableStream({ async start(controller) {...} }): the default
\* strategy, a queue that wants one chunk
HighWaterMark == 1

\* the frames start() has enqueued so far
Enqueued == SelectSeq(out, LAMBDA f : f.type # "close")

\* the chunks in the queue of the stream; a cancel empties the queue
Pending == IF callerGone THEN 0 ELSE Len(Enqueued) - taken

\* controller.desiredSize
DesiredSize == HighWaterMark - Pending

\* what the backend puts in one line while a caller is watched: a text
\* chunk, or the whole of a new tool call
CallerLines ==
  {[content |-> "He", frags |-> <<>>]}
  \cup (IF Len(toolCalls) >= MaxTools THEN {}
        ELSE {[content |-> "",
               frags |-> <<[slot |-> Len(toolCalls) + 1,
                            id |-> CallId(Len(toolCalls) + 1),
                            name |-> ToolName(Len(toolCalls) + 1),
                            arguments |-> <<"{", "}">>]>>]})

\* the request has been answered with the stream and the backend has
\* answered the fetch of generate: the read loop is about to start
CallerInit ==
  /\ pc = "streaming"
  /\ http = "stream"
  /\ handler = "openrouter"
  /\ out = <<>>
  /\ isFirstTextChunk = TRUE
  /\ currentToolUseIndex = 0
  /\ streamedContent = ""
  /\ fullContent = ""
  /\ toolCalls = <<>>
  /\ currentToolCall = 0
  /\ uniqueIds = 0
  /\ nLines = 0
  /\ inDeltas = <<>>
  /\ slots = <<>>
  /\ lineLog = <<>>
  /\ spliced = {}
  /\ outcome = "none"
  /\ callerGone = FALSE
  /\ taken = 0
  /\ ReaderIdle
  /\ RouterIdle
  /\ StateConfigured
  /\ MessagesIdle
  /\ ClientConstructed

(***************************************************************************)
(* One turn of while (true) { await reader.read(); ... } with one data     *)
(* line.  Nothing is awaited or tested before reader.read() but the        *)
(* previous line.  A text chunk goes to onChunk, whose controller.enqueue  *)
(* throws once the stream is cancelled: the catch of the line logs it and  *)
(* fullContent += txt is skipped.  A tool call is pushed on toolCalls      *)
(* whether or not the caller is still there.                               *)
(***************************************************************************)
ReadLoopTurn ==
  /\ pc = "streaming"
  /\ handler = "openrouter"
  /\ nLines < MaxLines
  /\ \E line \in CallerLines :
       LET chunks == OpenRouterTextChunks(line.content)
           px == OnChunks([out |-> out, first |-> isFirstTextChunk,
                           streamed |-> streamedContent], chunks)
           st == ApplyFragments([toolCalls |-> toolCalls,
                                 cur |-> currentToolCall,
                                 gen |-> uniqueIds, threw |-> FALSE,
                                 spliced |-> spliced],
                                line.frags)
       IN  /\ IF callerGone /\ chunks # <<>>
                THEN UNCHANGED <<out, isFirstTextChunk, streamedContent,
                                 fullContent>>
                ELSE /\ out' = px.out
                     /\ isFirstTextChunk' = px.first
                     /\ streamedContent' = px.streamed
                     /\ fullContent' = fullContent \o Concat(chunks)
           /\ toolCalls' = st.toolCalls
           /\ currentToolCall' = st.cur
           /\ uniqueIds' = st.gen
           /\ inDeltas' = inDeltas \o chunks
           /\ spliced' = st.spliced
           /\ lineLog' = Append(lineLog,
                                [kind |-> "delta", content |-> line.content,
                                 calls |-> DeltaCalls(chunks)])
  /\ nLines' = nLines + 1
  /\ UNCHANGED <<pc, http, handler, currentToolUseIndex, outcome, slots>>
  /\ UNCHANGED <<routerVars, auxVars>>

(***************************************************************************)
(* reader.read() reports done: generate returns {fullContent, toolCalls}.  *)
(* With the caller there, start() writes the closing frames and closes.    *)
(* With the caller gone the first controller.enqueue throws, the catch     *)
(* block's own enqueue throws again and start() rejects: nothing more is   *)
(* written.                                                                *)
(***************************************************************************)
ReadLoopEnds ==
  /\ pc = "streaming"
  /\ handler = "openrouter"
  /\ IF callerGone
       THEN /\ outcome' = "abandoned"
            /\ UNCHANGED <<out, currentToolUseIndex>>
       ELSE /\ out' = out \o CompletionOut(isFirstTextChunk, toolCalls,
                                           currentToolUseIndex, streamedContent)
            /\ currentToolUseIndex' = currentToolUseIndex + Len(toolCalls)
            /\ outcome' = "success"
  /\ pc' = "done"
  /\ UNCHANGED <<http, handler, isFirstTextChunk, streamedContent, clientVars,
                 backendVars>>
  /\ UNCHANGED <<routerVars, auxVars>>

\* the caller reads the next chunk of the body
CallerReads ==
  /\ ~callerGone
  /\ taken < Len(Enqueued)
  /\ taken' = taken + 1
  /\ UNCHANGED <<callerGone, pc, http, handler, proxyVars, clientVars,
                 backendVars, outcome>>
  /\ UNCHANGED <<routerVars, stateVars, messageVars, clientInstanceVars,
                 readerVars>>

\* the caller disconnects while the response is streamed: the stream is
\* cancelled.  No cancel() was given to the stream, so nothing reaches
\* start(), generate or the reader of the backend response.
CallerDisconnects ==
  /\ ~callerGone
  /\ pc = "streaming"
  /\ callerGone' = TRUE
  /\ UNCHANGED <<taken, pc, http, handler, proxyVars, clientVars,
                 backendVars, outcome>>
  /\ UNCHANGED <<routerVars, stateVars, messageVars, clientInstanceVars,
                 readerVars>>

CallerNext ==
  \/ ReadLoopTurn
  \/ ReadLoopEnds
  \/ CallerReads
  \/ CallerDisconnects

CallerSpec == CallerInit /\ [][CallerNext]_vars

(***************************************************************************)
(* The read loop of handleStreamingResponse over the bytes of the backend  *)
(* response.  The response is a sequence of pieces of text: the prefix     *)
(* "data: ", a payload, or the newline; reader.read() returns the next     *)
(* pieces, cut anywhere between two pieces.                                *)
(***************************************************************************)
MaxWireLines == 3

Newline == "\n"

DataPrefix == "data: "

DoneMarker == "[DONE]"

\* the lines a backend sends: a data line with a JSON payload, the [DONE]
\* line, and the blank line that separates two events
WireLines ==
  {<<DataPrefix, "x">>, <<DataPrefix, "y">>, <<DataPrefix, DoneMarker>>, <<>>}

RECURSIVE JoinWire(_)
JoinWire(ls) ==
  IF ls = <<>> THEN <<>> ELSE Head(ls) \o <<Newline>> \o JoinWire(Tail(ls))

\* the responses: up to max lines, the last one followed by a newline or not
WireStreams(max) ==
  UNION { { JoinWire(ls) : ls \in [1..n -> WireLines] }
          \cup { SubSeq(JoinWire(ls), 1, Len(JoinWire(ls)) - 1) :
                   ls \in [1..n -> WireLines] } : n \in 1..max }

\* buffer.split("\n")
RECURSIVE SplitNewline(_, _, _)
SplitNewline(text, cur, acc) ==
  IF text = <<>> THEN Append(acc, cur)
  ELSE IF Head(text) = Newline
    THEN SplitNewline(Tail(text), <<>>, Append(acc, cur))
  ELSE SplitNewline(Tail(text), Append(cur, Head(text)), acc)

\* for (const line of lines): a blank line or one that does not start with
\* "data: " is skipped, dataStr is line.slice(6), [DONE] leaves the for loop
\* and any other dataStr is parsed and processed
RECURSIVE ForLines(_, _)
ForLines(lines, log) ==
  IF lines = <<>> THEN log
  ELSE LET line == Head(lines)
       IN  IF line = <<>> \/ Head(line) # DataPrefix
             THEN ForLines(Tail(lines), log)
           ELSE IF Tail(line) = <<DoneMarker>>
             THEN Append(log, DoneMarker)
           ELSE ForLines(Tail(lines), log \o Tail(line))

\* buffer = lines.pop() || ""
KeepLastPiece(pieces) == pieces[Len(pieces)]

\* the backend has answered and the loop is about to call reader.read()
ReaderInit ==
  /\ pc = "streaming"
  /\ http = "stream"
  /\ handler = "openrouter"
  /\ out = <<>>
  /\ isFirstTextChunk = TRUE
  /\ currentToolUseIndex = 0
  /\ streamedContent = ""
  /\ fullContent = ""
  /\ toolCalls = <<>>
  /\ currentToolCall = 0
  /\ uniqueIds = 0
  /\ nLines = 0
  /\ inDeltas = <<>>
  /\ slots = <<>>
  /\ lineLog = <<>>
  /\ spliced = {}
  /\ outcome = "none"
  /\ callerGone = FALSE
  /\ taken = 0
  /\ wire \in WireStreams(MaxWireLines)
  /\ sent = <<>>
  /\ buffer = <<>>
  /\ processed = <<>>
  /\ readerDone = FALSE
  /\ RouterIdle
  /\ StateConfigured
  /\ MessagesIdle
  /\ ClientConstructed

ReaderUnchanged ==
  UNCHANGED <<pc, http, handler, proxyVars, clientVars, backendVars, outcome,
              callerVars, routerVars, stateVars, messageVars,
              clientInstanceVars>>

\* const { done, value } = await reader.read() with done false: the value is
\* appended to the buffer, the buffer is split, its last piece is kept as the
\* new buffer and the lines before it are looked at
ReadValue ==
  /\ ~readerDone
  /\ \E n \in 1..Len(wire) :
       LET value == SubSeq(wire, 1, n)
           lines == SplitNewline(buffer \o value, <<>>, <<>>)
       IN  /\ wire' = SubSeq(wire, n + 1, Len(wire))
           /\ sent' = sent \o value
           /\ buffer' = KeepLastPiece(lines)
           /\ processed' = ForLines(SubSeq(lines, 1, Len(lines) - 1), processed)
  /\ UNCHANGED readerDone
  /\ ReaderUnchanged

\* reader.read() reports done: if (done) break.  The buffer is not looked at
\* again.
ReadDone ==
  /\ ~readerDone
  /\ wire = <<>>
  /\ readerDone' = TRUE
  /\ UNCHANGED <<wire, sent, buffer, processed>>
  /\ ReaderUnchanged

ReaderNext == ReadValue \/ ReadDone

ReaderSpec == ReaderInit /\ [][ReaderNext]_vars

\* The event loop runs every settled continuation: a dispatched call is
\* answered, and a backend stream that ends or fails is seen by the client.
FairSpec ==
  /\ Spec
  /\ WF_vars(DispatchOk \/ DispatchFails)
  /\ WF_vars(StreamEnd \/ StreamError)

(***************************************************************************)
(* Properties.                                                             *)
(***************************************************************************)
\* the frames the caller receives: the enqueue calls, without the close
Frames == SelectSeq(out, LAMBDA f : f.type # "close")

Closed == \E i \in 1..Len(out) : out[i].type = "close"

\* the number of entries of type t written so far
Count(t) == Cardinality({i \in 1..Len(out) : out[i].type = t})

\* type, index and text of a frame
Sig(f) == <<f.type, f.index, f.text>>

SigsOf(fs) == [i \in 1..Len(fs) |-> Sig(fs[i])]

\* the content_block_* frames among the frames received
BlockFrames ==
  SelectSeq(Frames, LAMBDA f : f.type \in {"content_block_start",
                                           "content_block_delta",
                                           "content_block_stop"})

\* the request has completed without error after streaming text only
TextOnlySuccess ==
  /\ outcome = "success"
  /\ slots = <<>>
  /\ toolCalls = <<>>
  /\ Len(inDeltas) >= 1
  /\ \A i \in 1..Len(inDeltas) : inDeltas[i] # ""

\* C1: after n >= 1 non-empty text deltas, no tool call and a normal end, the
\* frames are exactly message_start, content_block_start(0), one
\* content_block_delta(0) per delta in order, content_block_stop(0),
\* message_delta, message_stop and the terminator.
C1_TextOnlySequence ==
  TextOnlySuccess =>
    SigsOf(Frames) =
      << <<"message_start", -1, "">>, <<"content_block_start", 0, "">> >>
      \o [i \in 1..Len(inDeltas) |-> <<"content_block_delta", 0, inDeltas[i]>>]
      \o << <<"content_block_stop", 0, "">>, <<"message_delta", -1, "">>,
            <<"message_stop", -1, "">>, <<"[DONE]", -1, "">> >>

C1_Witness == TextOnlySuccess /\ inDeltas = <<"He", "llo">>

\* C2: with no text delta and no tool call, a normal end still gives the
\* caller message_start, message_delta, message_stop and the terminator, and
\* no content-block frame.
C2_EmptyEnvelope ==
  (outcome = "success" /\ inDeltas = <<>> /\ slots = <<>> /\ toolCalls = <<>>) =>
    SigsOf(Frames) =
      << <<"message_start", -1, "">>, <<"message_delta", -1, "">>,
         <<"message_stop", -1, "">>, <<"[DONE]", -1, "">> >>

\* C3: in every stream that reaches message_stop, message_start is the first
\* frame and is emitted exactly once.
C3_MessageStartFirst ==
  Count("message_stop") > 0 =>
    /\ Frames[1].type = "message_start"
    /\ Count("message_start") = 1

\* the request has completed after no text delta and the tool calls A then B
TwoToolsNoText ==
  /\ outcome = "success"
  /\ inDeltas = <<>>
  /\ Len(toolCalls) = 2
  /\ toolCalls[1].name = "A"
  /\ toolCalls[2].name = "B"

\* C4: with no text delta and the tool calls A then B, no frame has index 0
\* and the block frames are exactly start(1, A), stop(1), start(2, B),
\* stop(2).
C4_TwoToolBlocks ==
  TwoToolsNoText =>
    /\ \A i \in 1..Len(Frames) : Frames[i].index # 0
    /\ Len(BlockFrames) = 4
    /\ BlockFrames[1].type = "content_block_start"
    /\ BlockFrames[1].block = "tool_use"
    /\ BlockFrames[1].index = 1
    /\ BlockFrames[1].tool = toolCalls[1]
    /\ BlockFrames[2].type = "content_block_stop"
    /\ BlockFrames[2].index = 1
    /\ BlockFrames[3].type = "content_block_start"
    /\ BlockFrames[3].block = "tool_use"
    /\ BlockFrames[3].index = 2
    /\ BlockFrames[3].tool = toolCalls[2]
    /\ BlockFrames[4].type = "content_block_stop"
    /\ BlockFrames[4].index = 2
    /\ \A i \in 1..(Len(Frames) - 1) :
         (Frames[i].type = "content_block_start")
           => /\ Frames[i + 1].type = "content_block_stop"
              /\ Frames[i + 1].index = Frames[i].index

C4_Witness == TwoToolsNoText /\ Len(BlockFrames) = 4

\* positions of out where a block of the given kind is started
Starts(kind) ==
  {i \in 1..Len(out) : out[i].type = "content_block_start" /\ out[i].block = kind}

\* C5: index 0 is the only index of a text block, tool-use blocks get
\* strictly increasing indices starting at 1, no index is started twice, and
\* no delta or stop is emitted for an index that has not been started.
C5_BlockIndices ==
  /\ \A i \in Starts("text") : out[i].index = 0
  /\ \A i \in Starts("tool_use") :
       /\ out[i].index >= 1
       /\ (\A j \in Starts("tool_use") : j < i => out[j].index < out[i].index)
       /\ ((\A j \in Starts("tool_use") : i <= j) => out[i].index = 1)
  /\ \A i, j \in Starts("text") \cup Starts("tool_use") :
       i # j => out[i].index # out[j].index
  /\ \A i \in 1..Len(out) :
       out[i].type \in {"content_block_delta", "content_block_stop"} =>
         \E j \in 1..(i - 1) :
           /\ out[j].type = "content_block_start"
           /\ out[j].index = out[i].index

C5_Witness ==
  /\ Cardinality(Starts("text")) = 1
  /\ Cardinality(Starts("tool_use")) = 2
  /\ Count("content_block_stop") = 3

\* C6: on the success path the stream ends with message_delta (stop_reason
\* end_turn), message_stop, the terminator and the close, in this order,
\* each exactly once and with nothing between or after them.
C6_SuccessTail ==
  outcome = "success" =>
    LET n == Len(out)
    IN  /\ n >= 4
        /\ out[n - 3].type = "message_delta"
        /\ out[n - 3].stop_reason = "end_turn"
        /\ out[n - 2].type = "message_stop"
        /\ out[n - 1].type = "[DONE]"
        /\ out[n].type = "close"
        /\ Count("message_delta") = 1
        /\ Count("message_stop") = 1
        /\ Count("[DONE]") = 1
        /\ Count("close") = 1

C6_Witness ==
  /\ outcome = "success"
  /\ Len(toolCalls) >= 1
  /\ Count("content_block_delta") >= 1
  /\ out[Len(out)].type = "close"

\* C7: when the backend call fails after the stream was opened, exactly one
\* server_error frame is emitted and the stream is then closed; there is no
\* message_delta, message_stop or terminator frame.
C7_ErrorFrame ==
  outcome = "error" =>
    LET n == Len(out)
    IN  /\ n >= 2
        /\ out[n - 1].type = "server_error"
        /\ out[n].type = "close"
        /\ Count("server_error") = 1
        /\ Count("close") = 1
        /\ Count("message_delta") = 0
        /\ Count("message_stop") = 0
        /\ Count("[DONE]") = 0

C7_Witness ==
  /\ outcome = "error"
  /\ Count("content_block_delta") >= 1
  /\ Count("server_error") = 1

\* the request has failed and no frame was sent before the failure
FailedBeforeAnyFrame ==
  /\ outcome \in {"rejected", "error"}
  /\ \A i \in 1..Len(out) : out[i].type \in {"server_error", "close"}

\* C8: a request that fails before any frame was sent (a dispatch answered
\* with a non-success status or a transport failure included) is answered
\* with a JSON error body and status 500, not with an event stream.
C8_Json500BeforeFrames ==
  FailedBeforeAnyFrame => (http = "json500" /\ out = <<>>)

\* C9: every accepted request whose backend call returns or throws has its
\* outbound stream closed eventually.
C9_EventuallyClosed == (http = "stream") ~> Closed

C9_Witness == http = "stream" /\ Closed /\ outcome = "error" /\ nLines = 0

\* the arguments of every call the backend named have been sent completely
AllArgumentsSent ==
  /\ outcome = "success"
  /\ Len(slots) >= 1
  /\ \A i \in 1..Len(slots) : slots[i].pos = Len(slots[i].full)

\* C10: when the argument string of a tool call has been delivered as
\* fragments of that string, in any split, the finalized call has args
\* deep-equal to the parse of the whole string.
C10_ArgsRoundTrip ==
  AllArgumentsSent =>
    \A i \in 1..Len(slots) :
      \E k \in 1..Len(toolCalls) :
        /\ toolCalls[k].name = slots[i].name
        /\ DeepEqual(toolCalls[k].args, JSONparse(slots[i].full).val)

(***************************************************************************)
(* The tool-call assembler of the aggregator client.                       *)
(***************************************************************************)

\* the entries of result.toolCalls that carry the name of slot i
CallsNamed(i) == {k \in 1..Len(toolCalls) : toolCalls[k].name = slots[i].name}

\* the argument text the backend has sent so far for slot i
SentArguments(i) == SubSeq(slots[i].full, 1, slots[i].pos)

\* C11: a slot whose name-carrying fragment was fed twice, with the same
\* name, has exactly one tool call in the result.
C11_NameTwiceOneCall ==
  \A i \in 1..Len(slots) :
    slots[i].named = 2 => Cardinality(CallsNamed(i)) = 1

\* C12: every argument fragment is merged into the tool call of the slot it
\* names, never into the call of another slot.
C12_FragmentsStayInSlot ==
  \A p \in spliced : toolCalls[p.call].name = slots[p.slot].name

\* C13: when the response completes and the argument text sent for a named
\* call does not parse as JSON, the result holds that call, with the empty
\* object as its args, and the stream has its message_stop.
C13_UnparsableArgsKeepCall ==
  (outcome = "success" /\ handler = "openrouter") =>
    /\ Count("message_stop") = 1
    /\ \A i \in 1..Len(slots) :
         ~JSONparse(SentArguments(i)).ok =>
           \E k \in CallsNamed(i) : toolCalls[k].args = EmptyObject

\* the texts of the content_block_delta frames written so far, in order
DeltaTexts ==
  LET ds == SelectSeq(out, LAMBDA f : f.type = "content_block_delta")
  IN  [i \in 1..Len(ds) |-> ds[i].text]

\* the non-empty delta.content texts of the backend lines so far, in order
ReceivedTexts ==
  LET ls == SelectSeq(lineLog, LAMBDA l : l.kind = "delta" /\ l.content # "")
  IN  [i \in 1..Len(ls) |-> ls[i].content]

\* the step reads a backend line that is not JSON
MalformedLineStep ==
  /\ Len(lineLog') = Len(lineLog) + 1
  /\ lineLog'[Len(lineLog')].kind = "malformed"

\* C14: a backend line that is not JSON writes no frame and does not end the
\* stream; the text of every valid line, before or after it, has its
\* content_block_delta frame, and a response that completes has its
\* message_stop.
C14_MalformedLineSkipped ==
  /\ [][MalformedLineStep =>
          /\ out' = out
          /\ pc' = pc
          /\ outcome' = outcome
          /\ UNCHANGED clientVars]_vars
  /\ []((\E i \in 1..Len(lineLog) : lineLog[i].kind = "malformed") =>
          /\ Len(DeltaTexts) = Len(ReceivedTexts)
          /\ outcome = "success" => Count("message_stop") = 1)

C14_Witness ==
  /\ outcome = "success"
  /\ Count("message_stop") = 1
  /\ \E i, j \in 1..Len(lineLog) :
       /\ i < j
       /\ lineLog[i].kind = "malformed"
       /\ lineLog[j].kind = "delta"
       /\ lineLog[j].content # ""

\* C15: the content_block_delta frames carry exactly the non-empty texts
\* received from the aggregator backend, one frame per text, in arrival
\* order, and the fullContent returned is their concatenation.
C15_TextForwardedVerbatim ==
  handler = "openrouter" =>
    /\ DeltaTexts = ReceivedTexts
    /\ fullContent = Concat(DeltaTexts)

C15_Witness ==
  /\ handler = "openrouter"
  /\ outcome = "success"
  /\ DeltaTexts = <<"He", "llo">>
  /\ fullContent = "Hello"

(***************************************************************************)
(* The backend router.                                                     *)
(***************************************************************************)

\* a request has been routed
Routed == route.handler # "none"

\* the tiers, in the order the claims name them
Tiers == <<"opus", "sonnet", "haiku">>

\* the substring of the i-th tier occurs in the lower-cased requested id
Occurs(i) == Includes(ToLowerCase(route.requested), Tiers[i])

\* the override configured for the i-th tier, "" if none
Override(i) == config.modelMap[Tiers[i]]

\* the global default model if configured, else the requested id
DefaultOrRequested ==
  IF config.model # "" THEN config.model ELSE route.requested

\* C16: in monitor mode every request is routed to the pass-through native
\* handler, whatever the requested id and the rest of the configuration.
C16_MonitorAlwaysNative ==
  (Routed /\ config.monitorMode) => route.handler = "native"

C16_Witness ==
  /\ Routed
  /\ config.monitorMode
  /\ config.useGeminiNative
  /\ config.geminiApiKey # ""
  /\ config.model # ""
  /\ config.modelMap.opus # ""
  /\ route.requested = "claude-opus-4"
  /\ route.handler = "native"

\* C17 as stated: for every tier whose substring occurs in the lower-cased
\* requested id, the target is that tier's override if it is configured, and
\* the global default (else the requested id) if it is not.
C17_EveryOccurringTier ==
  (Routed /\ ~config.monitorMode) =>
    \A i \in 1..Len(Tiers) :
      Occurs(i) =>
        route.target = IF Override(i) # "" THEN Override(i)
                       ELSE DefaultOrRequested

\* C17 (amended): for a requested id in which a tier substring occurs, the
\* target is the override of the first tier, in the order opus, sonnet,
\* haiku, whose substring occurs and whose override is configured; if there
\* is no such tier it is the global default, else the requested id.
C17_FirstConfiguredTier ==
  (Routed /\ ~config.monitorMode /\ \E i \in 1..Len(Tiers) : Occurs(i)) =>
    LET applicable == {i \in 1..Len(Tiers) : Occurs(i) /\ Override(i) # ""}
    IN  IF applicable = {} THEN route.target = DefaultOrRequested
        ELSE route.target = Override(MinOf(applicable))

C17_Witness ==
  /\ Routed
  /\ ~config.monitorMode
  /\ route.requested = "sonnet-opus"
  /\ config.modelMap.opus = ""
  /\ config.modelMap.sonnet # ""
  /\ config.model # ""
  /\ route.target = config.modelMap.sonnet

\* C18 as stated: when the substrings of two tiers occur in the requested
\* id, the target is never the override of the later one.
C18_LaterTierNeverApplies ==
  (Routed /\ ~config.monitorMode) =>
    \A i, j \in 1..Len(Tiers) :
      (i < j /\ Occurs(i) /\ Occurs(j) /\ Override(j) # "") =>
        route.target # Override(j)

\* C18 (amended): when the substrings of two tiers occur in the requested id
\* and the earlier one has an override configured, the target is never the
\* override of the later one.
C18_EarlierConfiguredTierWins ==
  (Routed /\ ~config.monitorMode) =>
    \A i, j \in 1..Len(Tiers) :
      (i < j /\ Occurs(i) /\ Occurs(j) /\ Override(i) # "" /\ Override(j) # "") =>
        route.target # Override(j)

C18_Witness ==
  /\ Routed
  /\ ~config.monitorMode
  /\ route.requested = "sonnet-opus"
  /\ config.modelMap.opus # ""
  /\ config.modelMap.sonnet # ""
  /\ route.target = config.modelMap.opus

\* C19: outside monitor mode, when the native-chat backend is forced, every
\* request is routed to the native-chat handler.
C19_ForcedNativeChat ==
  (Routed /\ ~config.monitorMode /\ config.useGeminiNative) =>
    route.handler = "gemini"

\* the target carries the native-chat vendor marker
HasVendorMarker == Includes(route.target, "gemini") \/ Includes(route.target, "google/")

\* the request went to the aggregator client kept under the target id
ToAggregatorKeyedByTarget ==
  /\ route.handler = "openrouter"
  /\ route.key = route.target
  /\ route.target \in handlers

\* C20 as stated: outside monitor mode and with native-chat not forced, a
\* target with the vendor marker goes to native-chat, else a target without
\* "/" goes to the pass-through native handler, else the request goes to the
\* aggregator client keyed by the target.
C20_TargetAloneDecides ==
  (Routed /\ ~config.monitorMode /\ ~config.useGeminiNative) =>
    IF HasVendorMarker THEN route.handler = "gemini"
    ELSE IF ~Includes(route.target, "/") THEN route.handler = "native"
    ELSE ToAggregatorKeyedByTarget

\* C20 (amended): outside monitor mode and with native-chat not forced, a
\* target with the vendor marker goes to native-chat if a native-chat API
\* key is configured; in every other case a target without "/" goes to the
\* pass-through native handler, and a target with "/" to the aggregator
\* client keyed by the target.
C20_MarkerNeedsKey ==
  (Routed /\ ~config.monitorMode /\ ~config.useGeminiNative) =>
    IF HasVendorMarker /\ config.geminiApiKey # "" THEN route.handler = "gemini"
    ELSE IF ~Includes(route.target, "/") THEN route.handler = "native"
    ELSE ToAggregatorKeyedByTarget

C20_Witness ==
  /\ Routed
  /\ ~config.monitorMode
  /\ ~config.useGeminiNative
  /\ config.geminiApiKey = ""
  /\ Includes(route.target, "google/")
  /\ ToAggregatorKeyedByTarget

(***************************************************************************)
(* The tool calls of one response.                                         *)
(***************************************************************************)

\* C29: no two tool calls of result.toolCalls have the same id, whether the
\* ids come from the backend or are generated.
C29_UniqueToolCallIds ==
  \A k1, k2 \in 1..Len(toolCalls) :
    k1 # k2 => toolCalls[k1].id # toolCalls[k2].id

(***************************************************************************)
(* The global application configuration.                                   *)
(***************************************************************************)

\* the positions of the setConfig calls in the history
SetConfigCalls ==
  {i \in 1..Len(stateCalls) : stateCalls[i].op = "setConfig"}

\* C30: only the first call of setConfig succeeds; every later call throws
\* and leaves the stored configuration as it is, and getConfig returns the
\* configuration of the first call from then on.
C30_SetConfigOnce ==
  SetConfigCalls # {} =>
    LET first == MinOf(SetConfigCalls)
    IN  /\ appConfig = stateCalls[first].arg
        /\ \A i \in SetConfigCalls : stateCalls[i].threw <=> i # first
        /\ \A i \in 1..Len(stateCalls) :
             (stateCalls[i].op = "getConfig" /\ i > first) =>
               /\ ~stateCalls[i].threw
               /\ stateCalls[i].returned = stateCalls[first].arg

C30_Witness ==
  /\ Len(stateCalls) >= 3
  /\ stateCalls[1].op = "setConfig"
  /\ stateCalls[2].op = "setConfig"
  /\ stateCalls[2].arg # stateCalls[1].arg
  /\ stateCalls[2].threw
  /\ stateCalls[3].op = "getConfig"
  /\ stateCalls[3].returned = stateCalls[1].arg

(***************************************************************************)
(* The message list built from a request.                                  *)
(***************************************************************************)

\* the messages of body.messages that are not system messages
NonSystemOfBody == SelectSeq(body.messages, LAMBDA m : m.role # "system")

\* the non-system messages of the list built
NonSystemBuilt == SelectSeq(messages, LAMBDA m : m.role # "system")

\* s is t with some elements left out, the others in the same order
RECURSIVE IsSubsequence(_, _)
IsSubsequence(s, t) ==
  IF s = <<>> THEN TRUE
  ELSE IF t = <<>> THEN FALSE
  ELSE IF Head(s) = Head(t) THEN IsSubsequence(Tail(s), Tail(t))
  ELSE IsSubsequence(s, Tail(t))

\* C28: the list built has at most one system message, which is its first
\* element, and its non-system messages are messages of the request in the
\* order of the request.
C28_OneLeadingSystemMessage ==
  /\ \A i \in 1..Len(messages) : messages[i].role = "system" => i = 1
  /\ IsSubsequence(NonSystemBuilt, NonSystemOfBody)

C28_Witness ==
  /\ Len(body.messages) = 3
  /\ body.messages[1].role = "user"
  /\ body.messages[2].role = "system"
  /\ body.messages[3].role = "system"
  /\ Len(messages) = 2
  /\ messages[1].role = "system"
  /\ messages[1].content = StringContent(SystemText(body.messages[2].content))
  /\ messages[2] = body.messages[1]

(***************************************************************************)
(* The request sent to the backend and the cache of aggregator clients.    *)
(***************************************************************************)

\* C21: the model id of the request sent to the backend is the target the
\* router resolved, and the aggregator client kept under a target only sends
\* requests for that target.
C21_OutgoingModelIsTarget ==
  outgoing.handler # "none" =>
    /\ outgoing.model = outgoing.target
    /\ outgoing.handler = "openrouter" => outgoing.model = outgoing.key

\* the number of aggregator clients constructed for target id
Constructions(id) == CopiesIn(id, constructed)

\* C22: the cache of aggregator clients starts with one client for every
\* pre-initialized target, a request adds a client only for the target it is
\* routed to the aggregator with and is served by the client kept under that
\* target, and no target ever has a second client constructed.
C22_OneClientPerTarget ==
  /\ [](/\ PreInitializedHandlers(config) \subseteq handlers
        /\ BagToSet(constructed) = handlers
        /\ \A id \in handlers : Constructions(id) = 1
        /\ route.handler = "openrouter" => route.key \in handlers)
  /\ [][handlers' # handlers =>
          /\ route'.handler = "openrouter"
          /\ handlers' = handlers \cup {route'.key}]_vars

C22_Witness ==
  /\ config.model = "x/big"
  /\ config.modelMap.opus = "x/big"
  /\ config.modelMap.sonnet = ""
  /\ route.requested = "gpt-4"
  /\ route.handler = "openrouter"
  /\ route.key = "x/big"
  /\ outgoing.key = "x/big"
  /\ Constructions("x/big") = 1

(***************************************************************************)
(* One aggregator client under concurrent requests.                        *)
(***************************************************************************)

\* C23: no key of the context-window cache is written more than once,
\* however the warm-up fetch of the constructor and the generate calls
\* interleave.
C23_WindowWrittenOnce ==
  \A id \in ModelIds : CopiesIn(id, cacheWrites) <= 1

\* the generate call has reset the adapter and has not returned or thrown
UsesAdapter(r) == genPc[r] \in {"beforeRequest", "backend", "streaming"}

\* C26: the adapter a request in flight has reset is not reset by another
\* request.
C26_AdapterNotShared ==
  \A r \in Requests : UsesAdapter(r) => adapterResetBy[GetAdapter(r)] = r

\* the position of event e in s, 0 if it does not occur
PositionOf(s, e) ==
  IF \E i \in 1..Len(s) : s[i] = e
    THEN MinOf({i \in 1..Len(s) : s[i] = e})
    ELSE 0

C24_DisconnectAbortsBackend ==
  [][callerGone => (nLines' = nLines /\ toolCalls' = toolCalls)]_vars

\* C25: the read loop reads the next backend line only while the stream of
\* the response wants more (its queue is below the high-water mark), and
\* while the caller is there every text chunk received has been enqueued.
C25_ReadsOnlyWhenSinkReady ==
  /\ [][nLines' # nLines => DesiredSize > 0]_vars
  /\ [](~callerGone => DeltaTexts = ReceivedTexts)

\* C31: getConfig throws exactly while no configuration is stored and never
\* returns null; an aggregator request handled while none is stored never
\* reaches the backend and ends as a request error, the JSON body with
\* status 500 and no stream frame.
C31_UnsetConfigFailsRequest ==
  /\ GetConfig(appConfig).threw <=> appConfig = NoAppConfig
  /\ ~GetConfig(appConfig).threw => GetConfig(appConfig).returned # NoAppConfig
  /\ (appConfig = NoAppConfig /\ handler = "openrouter") =>
       /\ pc # "streaming"
       /\ nLines = 0
       /\ pc = "done" => (http = "json500" /\ out = <<>>)

\* n = ceil(L / 4), said without the division
IsCeilOfQuarter(n, L) == 4 * n >= L /\ 4 * (n - 1) < L

\* the answer of the last count_tokens request fits the handler it names
CountAnswerFits ==
  /\ tokenCount.handler = "native" => tokenCount.kind = "forwarded"
  /\ tokenCount.handler # "native" =>
       /\ tokenCount.kind = "estimate"
       /\ IsCeilOfQuarter(tokenCount.input_tokens,
                          SerializedLength(tokenCount.body))

TextAndToolsSuccess ==
  /\ outcome = "success"
  /\ Count("content_block_delta") >= 1
  /\ Len(toolCalls) >= 1

\* C33: in a response with text and tool calls, content_block_stop of index
\* 0 comes before the first tool-use start; the k-th finalized call is
\* emitted as a start frame of index k carrying the call and its whole input,
\* followed at once by the stop frame of index k, in arrival order; and no
\* text delta ever follows a tool-use start.
C33_TextStopThenToolBlocks ==
  /\ \A i \in Starts("tool_use") : \A j \in 1..Len(out) :
       out[j].type = "content_block_delta" => j < i
  /\ TextAndToolsSuccess =>
       LET first == MinOf(Starts("tool_use"))
       IN  /\ Cardinality(Starts("tool_use")) = Len(toolCalls)
           /\ \E i \in 1..(first - 1) :
                out[i].type = "content_block_stop" /\ out[i].index = 0
           /\ \A k \in 1..Len(toolCalls) :
                /\ out[first + 2 * (k - 1)].type = "content_block_start"
                /\ out[first + 2 * (k - 1)].block = "tool_use"
                /\ out[first + 2 * (k - 1)].index = k
                /\ out[first + 2 * (k - 1)].tool = toolCalls[k]
                /\ out[first + 2 * k - 1].type = "content_block_stop"
                /\ out[first + 2 * k - 1].index = k

C33_Witness ==
  /\ TextAndToolsSuccess
  /\ Len(toolCalls) = 2
  /\ toolCalls[2].args # EmptyObject
  /\ Count("content_block_delta") = 1

\* the positions of the controller.close() calls
Closes == {i \in 1..Len(out) : out[i].type = "close"}

\* C34: nothing is enqueued after controller.close(), close is called at most
\* once, and a request whose stream ended, with the terminator or with the
\* error frame, has called it exactly once.
C34_NothingAfterClose ==
  /\ \A i \in Closes : i = Len(out)
  /\ Cardinality(Closes) <= 1
  /\ (http = "stream" /\ pc = "done") => Cardinality(Closes) = 1

C34_Witness ==
  /\ pc = "done"
  /\ outcome = "error"
  /\ Len(out) >= 5
  /\ Closes = {Len(out)}

\* how often e occurs in the sequence s
Occurrences(s, e) == Cardinality({i \in 1..Len(s) : s[i] = e})

\* C35: for every backend line that parses as JSON, afterStreamChunk has
\* been called exactly once, and before the onChunk call that forwards the
\* text of the line.
C35_HookOncePerParsedChunk ==
  handler = "openrouter" =>
    \A i \in 1..Len(lineLog) :
      lineLog[i].kind # "malformed" =>
        /\ Occurrences(lineLog[i].calls, "afterStreamChunk") = 1
        /\ lineLog[i].calls[1] = "afterStreamChunk"

RECURSIVE TotalLength(_)
TotalLength(texts) ==
  IF texts = <<>> THEN 0 ELSE Len(Head(texts)) + TotalLength(Tail(texts))

\* the number of characters of text written to the caller in delta frames
StreamedCharacters == TotalLength(DeltaTexts)

\* the output_tokens of the message_delta frames written so far
ReportedOutputTokens ==
  {out[i].output_tokens : i \in {j \in 1..Len(out) : out[j].type = "message_delta"}}

\* C36: output_tokens of message_delta is ceil(C / 4) for the C characters
\* of text streamed to the caller, 1 when no text was streamed, and so at
\* least 1.
C36_OutputTokensEstimate ==
  \A n \in ReportedOutputTokens :
    /\ n >= 1
    /\ IF StreamedCharacters = 0
         THEN n = 1
         ELSE IsCeilOfQuarter(n, StreamedCharacters)

C36_Witness ==
  /\ outcome = "success"
  /\ StreamedCharacters = 5
  /\ ReportedOutputTokens = {2}

\* C37: once the read loop has seen [DONE], it processes no later data line,
\* in the same read or in a later one.
C37_NothingAfterDone ==
  \A i, j \in 1..Len(processed) :
    (i < j /\ processed[i] = DoneMarker) => processed[j] = DoneMarker

\* the data lines of the whole response up to its [DONE] line, the last line
\* included when no newline follows it
DataLinesSent ==
  SelectSeq(ForLines(SplitNewline(sent, <<>>, <<>>), <<>>),
            LAMBDA d : d # DoneMarker)

\* C38: when the response has been read to its end, the data lines processed
\* are the data lines the backend sent, once each and in order, however the
\* response was cut into reads and with or without a final newline.
C38_SplitIndependent ==
  readerDone =>
    SelectSeq(processed, LAMBDA d : d # DoneMarker) = DataLinesSent

\* C39: with either handler, every content_block_delta carries at least one
\* character, and message_start and the start of block 0 are written only
\* when some backend chunk has carried text.
C39_TextBlockNeedsText ==
  /\ \A i \in 1..Len(out) :
       out[i].type = "content_block_delta" => out[i].text # ""
  /\ (Count("message_start") > 0 \/ Starts("text") # {}) =>
       \E i \in 1..Len(lineLog) : lineLog[i].content # ""

====
